---- MODULE Spec2Model ----
(***************************************************************************)
(* Model of the shop phase of super-auto-sim (src/src/shop.rs).            *)
(*                                                                         *)
(* The Shop owns a Team, a gold balance and two offer arrays.  One call of *)
(* Shop::step is one action of the model; the dice are the \E choices.     *)
(* Option<T> is modelled as a sequence: <<>> is None, <<x>> is Some(x).    *)
(* Arrays keep the source's indices 0..N-1.                                *)
(***************************************************************************)
EXTENDS Integers, Sequences, FiniteSets, TLC

(***************************************************************************)
(* Sizes (crate::params).  The shop code is written for any sizes; the     *)
(* model takes a team of three, two friend offers and one food offer.      *)
(***************************************************************************)
TEAM_SIZE == 3
SHOP_ANIMAL_COUNT == 2
SHOP_FOOD_COUNT == 1

\* The gold a Shop starts with.  Gold is what a round can spend, so this is
\* also what bounds the length of a run.
DEFAULT_GOLD == 10

TeamIdx == 0 .. (TEAM_SIZE - 1)
ShopIdx == 0 .. (SHOP_ANIMAL_COUNT - 1)
FoodIdx == 0 .. (SHOP_FOOD_COUNT - 1)

None == << >>
Some(x) == << x >>
is_some(o) == o # None
is_none(o) == o = None
unwrap(o) == o[1]

(***************************************************************************)
(* Value types consumed by the shop: Species, Food, Modifier, Friend.      *)
(***************************************************************************)
Species == {"Beaver", "Duck", "Otter", "Pig"}
Food == {"Apple", "Honey"}

SpeciesRank(s) ==
    CASE s = "Beaver" -> 0
      [] s = "Duck" -> 1
      [] s = "Otter" -> 2
      [] s = "Pig" -> 3

FoodRank(f) == IF f = "Apple" THEN 0 ELSE 1

DefaultHealth(s) ==
    CASE s = "Beaver" -> 2
      [] s = "Duck" -> 2
      [] s = "Otter" -> 2
      [] s = "Pig" -> 1

DefaultAttack(s) ==
    CASE s = "Beaver" -> 2
      [] s = "Duck" -> 1
      [] s = "Otter" -> 1
      [] s = "Pig" -> 3

\* Friend::new(species): a level-1 Friend with the species' default stats.
NewFriend(s) ==
    [species |-> s, health |-> DefaultHealth(s), attack |-> DefaultAttack(s),
     exp |-> 0, modifier |-> None]

\* Friend::level(): derived from the experience counter.
level(f) == IF f.exp < 2 THEN 1 ELSE IF f.exp < 5 THEN 2 ELSE 3

(***************************************************************************)
(* The derived total order on offers and the sort of an offer array.       *)
(***************************************************************************)
ModRank(m) == IF m = None THEN 0 ELSE 1

FriendKey(f) ==
    << SpeciesRank(f.species), f.health, f.attack, f.exp, ModRank(f.modifier) >>

RECURSIVE LexLess(_, _, _)
LexLess(a, b, k) ==
    IF k > Len(a) \/ k > Len(b) THEN FALSE
    ELSE IF a[k] # b[k] THEN a[k] < b[k]
    ELSE LexLess(a, b, k + 1)

\* The sort key of an Option<Friend>: None sorts first.
FriendOptKey(o) ==
    IF is_none(o) THEN << 0 >> ELSE << 1 >> \o FriendKey(unwrap(o))

\* The sort key of an Option<Food>
FoodOptKey(o) ==
    IF is_none(o) THEN << 0 >> ELSE << 1, FoodRank(unwrap(o)) >>

\* Position of entry k after a stable sort by key.
SortPos(key, k) ==
    Cardinality({m \in DOMAIN key :
                    \/ LexLess(key[m], key[k], 1)
                    \/ (~LexLess(key[k], key[m], 1) /\ m < k)})

\* slice::sort() of arr, whose entry k has sort key key[k].
sort_by(arr, key) ==
    [p \in DOMAIN arr |-> arr[CHOOSE k \in DOMAIN arr : SortPos(key, k) = p]]

FriendKeys(arr) == [k \in DOMAIN arr |-> FriendOptKey(arr[k])]
FoodKeys(arr) == [k \in DOMAIN arr |-> FoodOptKey(arr[k])]

sort_friends(arr) == sort_by(arr, FriendKeys(arr))
sort_foods(arr) == sort_by(arr, FoodKeys(arr))

\* Entries in non-decreasing key order.
IsSorted(key) ==
    \A p, q \in DOMAIN key : p < q => ~LexLess(key[q], key[p], 1)

(***************************************************************************)
(* Team container and dice helpers used by the shop.                       *)
(***************************************************************************)
Occupied(arr) == {k \in DOMAIN arr : is_some(arr[k])}
count(arr) == Cardinality(Occupied(arr))

\* Team::new()
NewTeam == [k \in TeamIdx |-> None]

\* dice::pick_one: the possible results, Some(index of an occupied entry)
\* or None when every entry is empty.
pick_one(arr) ==
    IF Occupied(arr) = {} THEN {None} ELSE {Some(k) : k \in Occupied(arr)}

\* Team::random_friends(n, rng): the possible samples of min(n, occupied)
\* distinct occupied slots.
random_friends(team, n) ==
    LET occ == Occupied(team)
        m == IF Cardinality(occ) < n THEN Cardinality(occ) ELSE n
    IN {T \in SUBSET occ : Cardinality(T) = m}

\* Team::make_space_at(i): opens slot i by shifting members towards the
\* nearest empty slot (first behind i, otherwise before it); fails without
\* touching the team when it is full.
make_space_at(team, i) ==
    LET after == {k \in TeamIdx : k > i /\ is_none(team[k])}
        before == {k \in TeamIdx : k < i /\ is_none(team[k])}
        Min(S) == CHOOSE x \in S : \A y \in S : x <= y
        Max(S) == CHOOSE x \in S : \A y \in S : x >= y
    IN IF is_none(team[i]) THEN [ok |-> TRUE, team |-> team]
       ELSE IF after # {} THEN
            LET e == Min(after) IN
            [ok |-> TRUE,
             team |-> [k \in TeamIdx |->
                         IF k = i THEN None
                         ELSE IF k > i /\ k <= e THEN team[k - 1]
                         ELSE team[k]]]
       ELSE IF before # {} THEN
            LET e == Max(before) IN
            [ok |-> TRUE,
             team |-> [k \in TeamIdx |->
                         IF k = i THEN None
                         ELSE IF k >= e /\ k < i THEN team[k + 1]
                         ELSE team[k]]]
       ELSE [ok |-> FALSE, team |-> team]

\* Team::summon(f, i)
summon(team, f, i) == [team EXCEPT ![i] = Some(f)]

\* Dice::roll(0..n): the possible results; empty when the range is empty,
\* in which case the call fails and the simulation aborts.
roll(n) == 0 .. (n - 1)

(***************************************************************************)
(* Shop primitives.  A Shop value is a record                              *)
(*   [team, gold, shop_friends, shop_foods, notified];                     *)
(* the first four are the Shop's fields, notified is the list of on_sold   *)
(* calls made so far in the current step.  A primitive that draws from the *)
(* dice yields the set of its outcomes.                                    *)
(***************************************************************************)
BuffFriend(o, dh, da) ==
    IF is_none(o) THEN o
    ELSE Some([unwrap(o) EXCEPT !.health = @ + dh, !.attack = @ + da])

\* The arrays reroll can leave: every slot sampled, then the array sorted.
RerolledFriends ==
    {sort_friends(a) : a \in [ShopIdx -> {Some(NewFriend(s)) : s \in Species}]}

RerolledFoods ==
    {sort_foods(b) : b \in [FoodIdx -> {Some(f) : f \in Food}]}

\* Fault seeded in reroll: only the empty slots are refilled.
reroll_fill_empty(S) ==
    LET fresh == {Some(NewFriend(s)) : s \in Species}
        foods == {Some(f) : f \in Food}
    IN {[S EXCEPT !.shop_friends = sort_friends(a), !.shop_foods = sort_foods(b)] :
           a \in {x \in [ShopIdx -> fresh \cup {S.shop_friends[k] : k \in ShopIdx}] :
                    \A k \in ShopIdx :
                       IF is_some(S.shop_friends[k])
                       THEN x[k] = S.shop_friends[k]
                       ELSE x[k] \in fresh},
           b \in {y \in [FoodIdx -> foods \cup {S.shop_foods[k] : k \in FoodIdx}] :
                    \A k \in FoodIdx :
                       IF is_some(S.shop_foods[k])
                       THEN y[k] = S.shop_foods[k]
                       ELSE y[k] \in foods}}

\* Shop::reroll: every offer replaced, then both arrays sorted.
reroll(S) ==
    {[S EXCEPT !.shop_friends = a, !.shop_foods = b] :
        a \in RerolledFriends, b \in RerolledFoods}

\* Shop::on_buy: Otter gives one random team member (+1, +1).
on_buy(S, f) ==
    IF f.species = "Otter"
    THEN {[S EXCEPT !.team = [k \in TeamIdx |->
                                IF k \in T THEN BuffFriend(S.team[k], 1, 1)
                                ELSE S.team[k]]] :
            T \in random_friends(S.team, 1)}
    ELSE {S}

\* Fault seeded in on_sell: the Duck raises only the first shop slot.
on_sell_first_offer_only(S, a) ==
    LET delta == level(a) IN
    CASE a.species = "Beaver" ->
            {[S EXCEPT !.team = [k \in TeamIdx |->
                                   IF k \in T THEN BuffFriend(S.team[k], delta, 0)
                                   ELSE S.team[k]]] :
                T \in random_friends(S.team, 2)}
      [] a.species = "Duck" ->
            {[S EXCEPT !.shop_friends[0] = BuffFriend(@, delta, 0)]}
      [] a.species = "Pig" -> {[S EXCEPT !.gold = @ + delta]}
      [] OTHER -> {S}

\* Fault seeded in on_sell: the Beaver raises one team member, not two.
on_sell_beaver_one(S, a) ==
    LET delta == level(a) IN
    CASE a.species = "Beaver" ->
            {[S EXCEPT !.team = [k \in TeamIdx |->
                                   IF k \in T THEN BuffFriend(S.team[k], delta, 0)
                                   ELSE S.team[k]]] :
                T \in random_friends(S.team, 1)}
      [] a.species = "Duck" ->
            {[S EXCEPT !.shop_friends =
                         [k \in ShopIdx |-> BuffFriend(S.shop_friends[k], delta, 0)]]}
      [] a.species = "Pig" -> {[S EXCEPT !.gold = @ + delta]}
      [] OTHER -> {S}

\* Shop::on_sell: Beaver, Duck and Pig effects, scaled by the seller's level.
on_sell(S, a) ==
    LET delta == level(a) IN
    CASE a.species = "Beaver" ->
            {[S EXCEPT !.team = [k \in TeamIdx |->
                                   IF k \in T THEN BuffFriend(S.team[k], delta, 0)
                                   ELSE S.team[k]]] :
                T \in random_friends(S.team, 2)}
      [] a.species = "Duck" ->
            {[S EXCEPT !.shop_friends =
                         [k \in ShopIdx |-> BuffFriend(S.shop_friends[k], delta, 0)]]}
      [] a.species = "Pig" -> {[S EXCEPT !.gold = @ + delta]}
      [] OTHER -> {S}

\* Shop::on_sold: no Tier 1 friend reacts to a sale.  The Shop is left as it
\* is; the call itself is noted in S.notified, the list of slots notified
\* during this step.
on_sold(S, i) == [S EXCEPT !.notified = Append(@, i)]

\* Fault seeded in on_sold_from: the occupancy test of the loop is missing.
RECURSIVE on_sold_from_every_slot(_, _, _)
on_sold_from_every_slot(S, team_pos, i) ==
    IF i >= TEAM_SIZE THEN S
    ELSE on_sold_from_every_slot(IF i # team_pos THEN on_sold(S, i) ELSE S,
                                 team_pos, i + 1)

\* The loop of sell_friend over the surviving slots, from slot i upwards.
RECURSIVE on_sold_from(_, _, _)
on_sold_from(S, team_pos, i) ==
    IF i >= TEAM_SIZE THEN S
    ELSE on_sold_from(IF i # team_pos /\ is_some(S.team[i]) THEN on_sold(S, i) ELSE S,
                      team_pos, i + 1)

\* The assertions and unwraps of buy_friend.
buy_friend_pre(S, shop_pos, team_pos) ==
    /\ S.gold >= 3
    /\ is_none(S.team[team_pos])
    /\ is_some(S.shop_friends[shop_pos])

\* Fault seeded in buy_friend: the offer is copied, not taken.
buy_friend_keeps_offer(S, shop_pos, team_pos) ==
    LET friend == unwrap(S.shop_friends[shop_pos])
        S1 == [S EXCEPT !.gold = @ - 3,
                        !.shop_friends = sort_friends(@)]
    IN {[S2 EXCEPT !.team = summon(@, friend, team_pos)] : S2 \in on_buy(S1, friend)}

\* Fault seeded in buy_friend: the Friend is summoned before its on-buy hook.
buy_friend_summon_first(S, shop_pos, team_pos) ==
    LET friend == unwrap(S.shop_friends[shop_pos])
        S1 == [S EXCEPT !.gold = @ - 3,
                        !.shop_friends = sort_friends([@ EXCEPT ![shop_pos] = None]),
                        !.team = summon(@, friend, team_pos)]
    IN on_buy(S1, friend)

\* Shop::buy_friend
buy_friend(S, shop_pos, team_pos) ==
    LET friend == unwrap(S.shop_friends[shop_pos])
        S1 == [S EXCEPT !.gold = @ - 3,
                        !.shop_friends = sort_friends([@ EXCEPT ![shop_pos] = None])]
    IN {[S2 EXCEPT !.team = summon(@, friend, team_pos)] : S2 \in on_buy(S1, friend)}

\* The unwrap and assertion of combine_friends.
combine_friends_pre(S, team_pos, g) ==
    /\ is_some(S.team[team_pos])
    /\ unwrap(S.team[team_pos]).species = g.species

Max2(a, b) == IF a >= b THEN a ELSE b

\* Fault seeded in combine_friends: the merged Friend's stats are ignored.
combine_friends_no_max(S, team_pos, g) ==
    LET f == unwrap(S.team[team_pos])
    IN [S EXCEPT !.team[team_pos] =
            Some([f EXCEPT !.health = f.health + 1,
                           !.attack = f.attack + 1,
                           !.exp = @ + 1])]

\* Shop::combine_friends
combine_friends(S, team_pos, g) ==
    LET f == unwrap(S.team[team_pos])
    IN [S EXCEPT !.team[team_pos] =
            Some([f EXCEPT !.health = Max2(f.health, g.health) + 1,
                           !.attack = Max2(f.attack, g.attack) + 1,
                           !.exp = @ + 1])]

\* The assertion of sell_friend.
sell_friend_pre(S, team_pos) == is_some(S.team[team_pos])

\* Shop::sell_friend
sell_friend(S, team_pos) ==
    LET a == unwrap(S.team[team_pos])
        S1 == [S EXCEPT !.team[team_pos] = None, !.gold = @ + level(a)]
    IN {on_sold_from(S2, team_pos, 0) : S2 \in on_sell(S1, a)}

\* The assertions of buy_food.
buy_food_pre(S, shop_pos, team_pos) ==
    /\ is_some(S.shop_foods[shop_pos])
    /\ is_some(S.team[team_pos])

\* Fault seeded in buy_food: the Apple raises the attack only.
buy_food_apple_attack_only(S, shop_pos, team_pos) ==
    LET friend == unwrap(S.team[team_pos])
        food == unwrap(S.shop_foods[shop_pos])
        fed == IF food = "Apple"
               THEN [friend EXCEPT !.attack = @ + 1]
               ELSE [friend EXCEPT !.modifier = Some("Honey")]
    IN [S EXCEPT !.shop_foods = sort_foods([@ EXCEPT ![shop_pos] = None]),
                 !.gold = @ - 3,
                 !.team[team_pos] = Some(fed)]

\* Shop::buy_food
buy_food(S, shop_pos, team_pos) ==
    LET friend == unwrap(S.team[team_pos])
        food == unwrap(S.shop_foods[shop_pos])
        fed == IF food = "Apple"
               THEN [friend EXCEPT !.attack = @ + 1, !.health = @ + 1]
               ELSE [friend EXCEPT !.modifier = Some("Honey")]
    IN [S EXCEPT !.shop_foods = sort_foods([@ EXCEPT ![shop_pos] = None]),
                 !.gold = @ - 3,
                 !.team[team_pos] = Some(fed)]

\* Fault seeded in low_gold: only an empty purse stops a purchase.
low_gold_zero_only(S) == S.gold = 0

\* The guard of the three purchases: self.gold < 3.
low_gold(S) == S.gold < 3

(***************************************************************************)
(* Candidate masks of the two combine actions.                             *)
(***************************************************************************)
same_species(a, b) ==
    is_some(a) /\ is_some(b) /\ unwrap(a).species = unwrap(b).species

\* Fault seeded in team_targets: the inner loop starts at i, not i + 1.
team_targets_with_self(S) ==
    [i \in TeamIdx |-> [j \in TeamIdx |->
        \E p, q \in TeamIdx :
            /\ p <= q
            /\ same_species(S.team[p], S.team[q])
            /\ ((i = p /\ j = q) \/ (i = q /\ j = p))]]

\* CombineFriends: targets[i][j], set for both orders of every pair i < j.
team_targets(S) ==
    [i \in TeamIdx |-> [j \in TeamIdx |->
        \E p, q \in TeamIdx :
            /\ p < q
            /\ same_species(S.team[p], S.team[q])
            /\ ((i = p /\ j = q) \/ (i = q /\ j = p))]]

\* BuyCombineFriend: targets[i][j] for shop offer i and team slot j.
shop_targets(S) ==
    [i \in ShopIdx |-> [j \in TeamIdx |->
        same_species(S.shop_friends[i], S.team[j])]]

\* has_targets[i]: row i has a candidate.
has_targets_of(targets) ==
    [i \in DOMAIN targets |-> \E j \in DOMAIN targets[i] : targets[i][j]]

\* mask.iter().filter(|b| **b).count()
count_true(mask) == Cardinality({k \in DOMAIN mask : mask[k]})

\* Fault seeded in nth_true: the set entries are counted from the far end.
nth_true_from_end(mask, v) ==
    LET T == {k \in DOMAIN mask : mask[k]}
    IN IF v < Cardinality(T)
       THEN Some(CHOOSE k \in T : Cardinality({m \in T : m > k}) = v)
       ELSE None

\* mask.iter().enumerate().filter(|b| *b.1).nth(v)
nth_true(mask, v) ==
    LET T == {k \in DOMAIN mask : mask[k]}
    IN IF v < Cardinality(T)
       THEN Some(CHOOSE k \in T : Cardinality({m \in T : m < k}) = v)
       ELSE None

(***************************************************************************)
(* State: the Shop's fields, and what the last call of step did: the       *)
(* action it sampled, how it ended ("false", "true", or "abort" for a      *)
(* panic), the two indices it selected (-1 when it selected none), the     *)
(* ranges n of the roll(0..n) calls that step itself made, in order, the   *)
(* slots it passed to on_sold, in order, and the results of the two rolls  *)
(* of a combine selection.                                                 *)
(***************************************************************************)
VARIABLES team, gold, shop_friends, shop_foods, action, ret, sel_i, sel_j, rolls,
          notified, picked

shop_vars == << team, gold, shop_friends, shop_foods >>
vars == << team, gold, shop_friends, shop_foods, action, ret, sel_i, sel_j, rolls,
           notified, picked >>

Cur == [team |-> team, gold |-> gold,
        shop_friends |-> shop_friends, shop_foods |-> shop_foods,
        notified |-> << >>]

NoSel == -1

\* The step ends with Shop value S, after a combine selection whose two
\* rolls returned pk.
FinishPicked(S, act, r, i, j, rl, pk) ==
    /\ team' = S.team
    /\ gold' = S.gold
    /\ shop_friends' = S.shop_friends
    /\ shop_foods' = S.shop_foods
    /\ action' = act
    /\ ret' = r
    /\ sel_i' = i
    /\ sel_j' = j
    /\ rolls' = rl
    /\ notified' = S.notified
    /\ picked' = pk

\* The step ends with Shop value S.
Finish(S, act, r, i, j, rl) == FinishPicked(S, act, r, i, j, rl, << >>)

\* Shop::new: default gold, empty team, a free reroll.
Init ==
    /\ \E S \in reroll([team |-> NewTeam, gold |-> DEFAULT_GOLD,
                        shop_friends |-> [k \in ShopIdx |-> None],
                        shop_foods |-> [k \in FoodIdx |-> None]]) :
          /\ team = S.team
          /\ gold = S.gold
          /\ shop_friends = S.shop_friends
          /\ shop_foods = S.shop_foods
    /\ action = "new"
    /\ ret = "none"
    /\ sel_i = NoSel
    /\ sel_j = NoSel
    /\ rolls = << >>
    /\ notified = << >>
    /\ picked = << >>

\* The driver calls step until it returns true; a panicked simulation makes
\* no further call.  (A call after a true return would act on the same Shop
\* value as the call that returned it.)
Running == ret \notin {"abort", "true"}

\* step, ShopAction::BuyFriend
BuyFriend ==
    /\ Running
    /\ LET S == Cur IN
       IF low_gold(S)
       THEN Finish(S, "BuyFriend", "true", NoSel, NoSel, << 6 >>)
       ELSE \E oi \in pick_one(S.shop_friends) :
            IF is_none(oi)
            THEN Finish(S, "BuyFriend", "true", NoSel, NoSel, << 6 >>)
            ELSE \E j \in roll(TEAM_SIZE) :
                 LET i == unwrap(oi)
                     m == make_space_at(S.team, j)
                     S1 == [S EXCEPT !.team = m.team]
                 IN IF m.ok
                    THEN IF buy_friend_pre(S1, i, j)
                         THEN \E S2 \in buy_friend(S1, i, j) :
                                 Finish(S2, "BuyFriend", "false", i, j, << 6, TEAM_SIZE >>)
                         ELSE Finish(S1, "BuyFriend", "abort", i, j, << 6, TEAM_SIZE >>)
                    ELSE Finish(S1, "BuyFriend", "true", i, j, << 6, TEAM_SIZE >>)

\* step, ShopAction::BuyFood
BuyFood ==
    /\ Running
    /\ LET S == Cur IN
       IF low_gold(S)
       THEN Finish(S, "BuyFood", "true", NoSel, NoSel, << 6 >>)
       ELSE \E oi \in pick_one(S.shop_foods) :
            IF is_none(oi)
            THEN Finish(S, "BuyFood", "true", NoSel, NoSel, << 6 >>)
            ELSE \E oj \in pick_one(S.team) :
                 IF is_none(oj)
                 THEN Finish(S, "BuyFood", "true", unwrap(oi), NoSel, << 6 >>)
                 ELSE LET i == unwrap(oi)
                          j == unwrap(oj)
                      IN IF buy_food_pre(S, i, j)
                         THEN Finish(buy_food(S, i, j), "BuyFood", "false", i, j, << 6 >>)
                         ELSE Finish(S, "BuyFood", "abort", i, j, << 6 >>)

\* Fault seeded in SellFriend: the slot is rolled over the whole team instead
\* of picked among the occupied slots.
SellFriendAnySlot ==
    /\ Running
    /\ LET S == Cur IN
       \E j \in roll(TEAM_SIZE) :
          IF sell_friend_pre(S, j)
          THEN \E S2 \in sell_friend(S, j) :
                  Finish(S2, "SellFriend", "false", NoSel, j, << 6, TEAM_SIZE >>)
          ELSE Finish(S, "SellFriend", "abort", NoSel, j, << 6, TEAM_SIZE >>)

\* step, ShopAction::SellFriend
SellFriend ==
    /\ Running
    /\ LET S == Cur IN
       \E oj \in pick_one(S.team) :
          IF is_some(oj)
          THEN LET j == unwrap(oj) IN
               IF sell_friend_pre(S, j)
               THEN \E S2 \in sell_friend(S, j) :
                       Finish(S2, "SellFriend", "false", NoSel, j, << 6 >>)
               ELSE Finish(S, "SellFriend", "abort", NoSel, j, << 6 >>)
          ELSE Finish(S, "SellFriend", "true", NoSel, NoSel, << 6 >>)

\* Fault seeded in Reroll: the shop is rerolled before the purse is checked.
RerollBeforeGoldCheck ==
    /\ Running
    /\ LET S == Cur IN
       IF \/ \E k \in FoodIdx : is_none(S.shop_foods[k])
          \/ \E k \in ShopIdx : is_none(S.shop_friends[k])
       THEN \E S1 \in reroll(S) :
               IF S.gold = 0
               THEN Finish(S1, "Reroll", "true", NoSel, NoSel, << 6 >>)
               ELSE Finish([S1 EXCEPT !.gold = @ - 1],
                           "Reroll", "false", NoSel, NoSel, << 6 >>)
       ELSE Finish(S, "Reroll", "true", NoSel, NoSel, << 6 >>)

\* Fault seeded in Reroll: the useless-reroll branch misses its return.
RerollFallsThrough ==
    /\ Running
    /\ LET S == Cur IN
       IF S.gold = 0
       THEN Finish(S, "Reroll", "true", NoSel, NoSel, << 6 >>)
       ELSE IF \/ \E k \in FoodIdx : is_none(S.shop_foods[k])
               \/ \E k \in ShopIdx : is_none(S.shop_friends[k])
            THEN \E S1 \in reroll(S) :
                    Finish([S1 EXCEPT !.gold = @ - 1],
                           "Reroll", "false", NoSel, NoSel, << 6 >>)
            ELSE Finish(S, "Reroll", "false", NoSel, NoSel, << 6 >>)

\* step, ShopAction::Reroll
Reroll ==
    /\ Running
    /\ LET S == Cur IN
       IF S.gold = 0
       THEN Finish(S, "Reroll", "true", NoSel, NoSel, << 6 >>)
       ELSE IF \/ \E k \in FoodIdx : is_none(S.shop_foods[k])
               \/ \E k \in ShopIdx : is_none(S.shop_friends[k])
            THEN \E S1 \in reroll(S) :
                    Finish([S1 EXCEPT !.gold = @ - 1],
                           "Reroll", "false", NoSel, NoSel, << 6 >>)
            ELSE Finish(S, "Reroll", "true", NoSel, NoSel, << 6 >>)

\* step, ShopAction::CombineFriends
CombineFriends ==
    /\ Running
    /\ LET S == Cur
           targets == team_targets(S)
           has_targets == has_targets_of(targets)
           num == count_true(has_targets)
       IN IF roll(num) = {}
          THEN Finish(S, "CombineFriends", "abort", NoSel, NoSel, << 6, num >>)
          ELSE \E v \in roll(num) :
               LET oi == nth_true(has_targets, v) IN
               IF is_some(oi)
               THEN LET i == unwrap(oi)
                        num2 == count_true(targets[i])
                    IN IF roll(num2) = {}
                       THEN Finish(S, "CombineFriends", "abort", i, NoSel,
                                   << 6, num, num2 >>)
                       ELSE \E w \in roll(num2) :
                            LET oj == nth_true(targets[i], w)
                                j == unwrap(oj)
                                friend == unwrap(S.team[i])
                                S1 == [S EXCEPT !.team[i] = None]
                            IN IF /\ is_some(oj)
                                  /\ is_some(S.team[i])
                                  /\ combine_friends_pre(S1, j, friend)
                               THEN FinishPicked(combine_friends(S1, j, friend),
                                                 "CombineFriends", "false", i, j,
                                                 << 6, num, num2 >>, << v, w >>)
                               ELSE Finish(S, "CombineFriends", "abort", i,
                                           IF is_some(oj) THEN j ELSE NoSel,
                                           << 6, num, num2 >>)
               ELSE Finish(S, "CombineFriends", "true", NoSel, NoSel, << 6, num >>)

\* Fault seeded in BuyCombineFriend: the merged Friend is not put back after
\* its on-buy hook.
BuyCombineFriendNoReattach ==
    /\ Running
    /\ LET S == Cur
           targets == shop_targets(S)
           has_targets == has_targets_of(targets)
           num == count_true(has_targets)
       IN IF low_gold(S)
          THEN Finish(S, "BuyCombineFriend", "true", NoSel, NoSel, << 6 >>)
          ELSE IF roll(num) = {}
          THEN Finish(S, "BuyCombineFriend", "abort", NoSel, NoSel, << 6, num >>)
          ELSE \E v \in roll(num) :
               LET oi == nth_true(has_targets, v) IN
               IF is_none(oi)
               THEN Finish(S, "BuyCombineFriend", "true", NoSel, NoSel, << 6, num >>)
               ELSE LET i == unwrap(oi)
                        num2 == count_true(targets[i])
                    IN IF roll(num2) = {}
                       THEN Finish(S, "BuyCombineFriend", "abort", i, NoSel,
                                   << 6, num, num2 >>)
                       ELSE \E w \in roll(num2) :
                            LET oj == nth_true(targets[i], w)
                                j == unwrap(oj)
                                friend == unwrap(S.shop_friends[i])
                                S1 == [S EXCEPT
                                         !.shop_friends =
                                            sort_friends([@ EXCEPT ![i] = None]),
                                         !.gold = @ - 3]
                            IN IF /\ is_some(oj)
                                  /\ is_some(S.shop_friends[i])
                                  /\ combine_friends_pre(S1, j, friend)
                               THEN LET S2 == combine_friends(S1, j, friend)
                                        merged == unwrap(S2.team[j])
                                        S3 == [S2 EXCEPT !.team[j] = None]
                                    IN \E S4 \in on_buy(S3, merged) :
                                          FinishPicked(
                                              S4,
                                              "BuyCombineFriend", "false", i, j,
                                              << 6, num, num2 >>, << v, w >>)
                               ELSE Finish(S, "BuyCombineFriend", "abort", i,
                                           IF is_some(oj) THEN j ELSE NoSel,
                                           << 6, num, num2 >>)

\* step, ShopAction::BuyCombineFriend
BuyCombineFriend ==
    /\ Running
    /\ LET S == Cur
           targets == shop_targets(S)
           has_targets == has_targets_of(targets)
           num == count_true(has_targets)
       IN IF low_gold(S)
          THEN Finish(S, "BuyCombineFriend", "true", NoSel, NoSel, << 6 >>)
          ELSE IF roll(num) = {}
          THEN Finish(S, "BuyCombineFriend", "abort", NoSel, NoSel, << 6, num >>)
          ELSE \E v \in roll(num) :
               LET oi == nth_true(has_targets, v) IN
               IF is_none(oi)
               THEN Finish(S, "BuyCombineFriend", "true", NoSel, NoSel, << 6, num >>)
               ELSE LET i == unwrap(oi)
                        num2 == count_true(targets[i])
                    IN IF roll(num2) = {}
                       THEN Finish(S, "BuyCombineFriend", "abort", i, NoSel,
                                   << 6, num, num2 >>)
                       ELSE \E w \in roll(num2) :
                            LET oj == nth_true(targets[i], w)
                                j == unwrap(oj)
                                friend == unwrap(S.shop_friends[i])
                                S1 == [S EXCEPT
                                         !.shop_friends =
                                            sort_friends([@ EXCEPT ![i] = None]),
                                         !.gold = @ - 3]
                            IN IF /\ is_some(oj)
                                  /\ is_some(S.shop_friends[i])
                                  /\ combine_friends_pre(S1, j, friend)
                               THEN LET S2 == combine_friends(S1, j, friend)
                                        merged == unwrap(S2.team[j])
                                        S3 == [S2 EXCEPT !.team[j] = None]
                                    IN \E S4 \in on_buy(S3, merged) :
                                          FinishPicked(
                                              [S4 EXCEPT !.team[j] = Some(merged)],
                                              "BuyCombineFriend", "false", i, j,
                                              << 6, num, num2 >>, << v, w >>)
                               ELSE Finish(S, "BuyCombineFriend", "abort", i,
                                           IF is_some(oj) THEN j ELSE NoSel,
                                           << 6, num, num2 >>)

\* One call of step: ShopAction::sample rolls 0..6 and dispatches.
Next ==
    \/ BuyFriend
    \/ BuyCombineFriend
    \/ SellFriend
    \/ BuyFood
    \/ CombineFriends
    \/ Reroll

Spec == Init /\ [][Next]_vars

(***************************************************************************)
(* Properties.                                                             *)
(***************************************************************************)
Stepped(act) == action = act /\ ret = "false"
SteppedNext(act) == action' = act /\ ret' = "false"

\* C1: gold is never negative: every spend (BuyFriend, BuyCombineFriend,
\* BuyFood: 3, Reroll: 1) is taken only with at least that much gold.
C1_GoldNeverNegative == gold >= 0

\* A purchase spent the last gold.
C1_Witness ==
    /\ action \in {"BuyFriend", "BuyCombineFriend", "BuyFood", "Reroll"}
    /\ ret = "false"
    /\ gold = 0

\* C2: a call of step that returns true leaves gold, team and both offer
\* arrays exactly as they were.
C2_TrueLeavesShopUnchanged == [][ret' = "true" => UNCHANGED shop_vars]_vars

\* Reroll with no gold and an offer missing has returned true.
C2_Witness ==
    /\ action = "Reroll"
    /\ ret = "true"
    /\ gold = 0
    /\ \E k \in ShopIdx : is_none(shop_friends[k])

NoTeamPair ==
    ~ \E p, q \in TeamIdx : p < q /\ same_species(team[p], team[q])

NoShopPair ==
    ~ \E i \in ShopIdx, j \in TeamIdx : same_species(shop_friends[i], team[j])

\* C3: with no same-species pair, CombineFriends returns true, and so does
\* BuyCombineFriend with gold >= 3, without aborting or changing the Shop.
C3_NoPairReturnsTrue ==
    [][/\ (action' = "CombineFriends" /\ NoTeamPair)
            => (ret' = "true" /\ UNCHANGED shop_vars)
       /\ (action' = "BuyCombineFriend" /\ gold >= 3 /\ NoShopPair)
            => (ret' = "true" /\ UNCHANGED shop_vars)]_vars

\* C4: every roll(0..n) that step makes has n > 0.
C4_RollRangesNonEmpty == \A k \in DOMAIN rolls : rolls[k] > 0

\* C5: both offer arrays are in the canonical sort order after Shop::new and
\* after every step, the Duck's on-sell effect included.
C5_OffersSorted ==
    /\ IsSorted(FriendKeys(shop_friends))
    /\ IsSorted(FoodKeys(shop_foods))

\* A sale has just returned and every offer slot holds a Friend whose health
\* a Duck's sale raised above the species default.
C5_Witness ==
    /\ Stepped("SellFriend")
    /\ \A k \in ShopIdx :
          /\ is_some(shop_friends[k])
          /\ unwrap(shop_friends[k]).health
                > DefaultHealth(unwrap(shop_friends[k]).species)

\* The Friend merged away by the combine the step performs.
MergedAway ==
    IF action' = "CombineFriends"
    THEN unwrap(team[sel_i'])
    ELSE unwrap(shop_friends[sel_i'])

\* C6: after a combine of Friend b into team Friend a, the survivor has
\* health max(a, b) + 1, attack max(a, b) + 1, exp a.exp + 1 and a's species
\* and modifier; CombineFriends empties b's slot and the team shrinks by one.
C6_CombineResult ==
    [][(SteppedNext("CombineFriends") \/ SteppedNext("BuyCombineFriend")) =>
         LET a == unwrap(team[sel_j'])
             b == MergedAway
             s == unwrap(team'[sel_j'])
         IN /\ is_some(team'[sel_j'])
            /\ s.health = Max2(a.health, b.health) + 1
            /\ s.attack = Max2(a.attack, b.attack) + 1
            /\ s.exp = a.exp + 1
            /\ s.species = a.species
            /\ s.modifier = a.modifier
            /\ action' = "CombineFriends" =>
                  /\ is_none(team'[sel_i'])
                  /\ count(team') = count(team) - 1]_vars

\* A combine whose survivor took a stat from the merged Friend or kept a
\* higher one of its own: it is more than one above the species default.
C6_Witness ==
    /\ Stepped("CombineFriends") \/ Stepped("BuyCombineFriend")
    /\ is_some(team[sel_j])
    /\ unwrap(team[sel_j]).exp >= 1
    /\ unwrap(team[sel_j]).health > DefaultHealth(unwrap(team[sel_j]).species) + 1

\* C7: the two slots CombineFriends selects are distinct, occupied and of one
\* species; the offer and the slot BuyCombineFriend selects are occupied and
\* of one species.
C7_NoSelfCombine ==
    [][/\ (action' = "CombineFriends" /\ sel_i' # NoSel /\ sel_j' # NoSel)
            => /\ sel_i' # sel_j'
               /\ same_species(team[sel_i'], team[sel_j'])
       /\ (action' = "BuyCombineFriend" /\ sel_i' # NoSel /\ sel_j' # NoSel)
            => same_species(shop_friends[sel_i'], team[sel_j'])]_vars

\* CombineFriends merged a higher slot into a lower one in a team that keeps
\* another member.
C7_Witness ==
    /\ Stepped("CombineFriends")
    /\ sel_i > sel_j
    /\ count(team) >= 2

\* C8: a call of step that returns false has changed the Shop.
C8_FalseChangesShop == [][ret' = "false" => shop_vars' # shop_vars]_vars

\* A sale returned false and left the team empty.
C8_Witness ==
    /\ Stepped("SellFriend")
    /\ count(team) = 0

SpeciesCount(arr, s) ==
    Cardinality({k \in DOMAIN arr : is_some(arr[k]) /\ unwrap(arr[k]).species = s})

\* C10: a successful BuyFriend costs exactly 3 gold, empties exactly one
\* offer, adds exactly one team member without displacing any, and puts the
\* Friend at the target slot with the species, health, attack and exp it had
\* in the shop.
C10_BuyFriendEffect ==
    [][SteppedNext("BuyFriend") =>
         LET f == unwrap(shop_friends[sel_i'])
             g == unwrap(team'[sel_j'])
         IN /\ gold' = gold - 3
            /\ count(shop_friends') = count(shop_friends) - 1
            /\ count(team') = count(team) + 1
            /\ count(team') <= TEAM_SIZE
            /\ \A s \in Species :
                  SpeciesCount(team', s) =
                     SpeciesCount(team, s) + (IF s = f.species THEN 1 ELSE 0)
            /\ is_some(team'[sel_j'])
            /\ g.species = f.species
            /\ g.health = f.health
            /\ g.attack = f.attack
            /\ g.exp = f.exp]_vars

\* A purchase filled the last free team slot.
C10_Witness ==
    /\ Stepped("BuyFriend")
    /\ count(team) = TEAM_SIZE

MissingOffer ==
    \/ \E k \in FoodIdx : is_none(shop_foods[k])
    \/ \E k \in ShopIdx : is_none(shop_friends[k])

NonDefaultOffer ==
    \E k \in ShopIdx :
       /\ is_some(shop_friends[k])
       /\ unwrap(shop_friends[k]) # NewFriend(unwrap(shop_friends[k]).species)

\* C11: with gold > 0, Reroll rerolls (and returns false) if and only if an
\* offer is missing or an offered Friend has non-default stats; it returns
\* true only when every slot is full and every offered Friend is at default.
C11_RerollIffUseful ==
    [][(action' = "Reroll" /\ gold > 0) =>
          ((ret' = "false") <=> (MissingOffer \/ NonDefaultOffer))]_vars

\* C12: no assertion and no unwrap of the shop primitives fails: buy_friend,
\* sell_friend, buy_food and combine_friends are only reached with their
\* preconditions true.  The only panic a step can end in is a roll on an
\* empty range.
C12_NoPreconditionFails ==
    ret = "abort" => (Len(rolls) > 0 /\ rolls[Len(rolls)] = 0)

\* buy_friend was reached with just enough gold, into a team that already
\* had a member.
C12_Witness ==
    /\ Stepped("BuyFriend")
    /\ gold < 3
    /\ count(team) >= 2

\* Every offer slot is occupied and every offered Friend is freshly made.
AllOffersFresh ==
    /\ \A k \in ShopIdx :
          /\ is_some(shop_friends[k])
          /\ unwrap(shop_friends[k]) = NewFriend(unwrap(shop_friends[k]).species)
    /\ \A k \in FoodIdx : is_some(shop_foods[k])

\* C13: a reroll done by the Reroll action leaves every offer slot occupied
\* by a fresh offer, costs exactly 1 gold and leaves the team as it was;
\* Shop::new yields DEFAULT_GOLD, an empty team and full offer arrays.
C13_RerollEffect ==
    /\ [](action = "new" =>
             (gold = DEFAULT_GOLD /\ team = NewTeam /\ AllOffersFresh))
    /\ [][SteppedNext("Reroll") =>
             (AllOffersFresh' /\ gold' = gold - 1 /\ team' = team)]_vars

\* A reroll was done with a team in place and the last gold.
C13_Witness ==
    /\ Stepped("Reroll")
    /\ count(team) >= 1
    /\ gold = 0

\* The team the on-buy hook of the step finds, and the Friend that triggers
\* it: for BuyFriend the team with the target slot opened and the purchased
\* Friend; for BuyCombineFriend the team and the merged Friend.
HookTeam ==
    IF action' = "BuyFriend" THEN make_space_at(team, sel_j').team ELSE team

HookFriend ==
    IF action' = "BuyFriend"
    THEN unwrap(shop_friends[sel_i'])
    ELSE LET a == unwrap(team[sel_j'])
             b == unwrap(shop_friends[sel_i'])
         IN [a EXCEPT !.health = Max2(a.health, b.health) + 1,
                      !.attack = Max2(a.attack, b.attack) + 1,
                      !.exp = @ + 1]

\* C14: the on-buy hook never touches the Friend that triggers it, which ends
\* the step at its slot as bought (or as merged).  An Otter gives +1 health
\* and +1 attack to exactly one other occupied slot when there is one; in
\* every other case no other slot changes.
C14_OnBuyEffect ==
    [][(SteppedNext("BuyFriend") \/ SteppedNext("BuyCombineFriend")) =>
         LET j == sel_j'
             others == TeamIdx \ {j}
             base == HookTeam
             changed == {k \in others : team'[k] # base[k]}
         IN /\ team'[j] = Some(HookFriend)
            /\ IF /\ HookFriend.species = "Otter"
                  /\ \E k \in others : is_some(base[k])
               THEN \E k \in others :
                       /\ is_some(base[k])
                       /\ changed = {k}
                       /\ team'[k] = BuffFriend(base[k], 1, 1)
               ELSE changed = {}]_vars

\* An Otter sits in the team as bought, next to a member that carries its
\* bonus, after a purchase that spent exactly the price of the two.
C14_Witness ==
    /\ Stepped("BuyFriend")
    /\ gold = DEFAULT_GOLD - 6
    /\ team[sel_j] = Some(NewFriend("Otter"))
    /\ \E k \in TeamIdx \ {sel_j} :
          /\ is_some(team[k])
          /\ unwrap(team[k]).health = DefaultHealth(unwrap(team[k]).species) + 1
          /\ unwrap(team[k]).attack = DefaultAttack(unwrap(team[k]).species) + 1

\* C15: a successful BuyCombineFriend costs exactly 3 gold, empties exactly
\* one friend offer and leaves the same team slots occupied as before: the
\* merged Friend is back at its slot and none is added.
C15_BuyCombineFrame ==
    [][SteppedNext("BuyCombineFriend") =>
         /\ gold' = gold - 3
         /\ count(shop_friends') = count(shop_friends) - 1
         /\ Occupied(team') = Occupied(team)
         /\ is_some(team'[sel_j'])]_vars

\* An Otter offer was merged into a team with another member, so the hook
\* ran on that member while the merged Otter was detached.
C15_Witness ==
    /\ Stepped("BuyCombineFriend")
    /\ unwrap(team[sel_j]).species = "Otter"
    /\ count(team) >= 2

C17_OnSellEffect ==
    [][SteppedNext("SellFriend") =>
         LET j == sel_j'
             a == unwrap(team[j])
             delta == level(a)
             rest == Occupied(team) \ {j}
             raised == {k \in rest : team'[k] # team[k]}
             two == IF Cardinality(rest) < 2 THEN Cardinality(rest) ELSE 2
         IN /\ shop_foods' = shop_foods
            /\ \A k \in raised : team'[k] = BuffFriend(team[k], delta, 0)
            /\ Cardinality(raised) = (IF a.species = "Beaver" THEN two ELSE 0)
            /\ shop_friends' =
                  (IF a.species = "Duck"
                   THEN [k \in ShopIdx |-> BuffFriend(shop_friends[k], delta, 0)]
                   ELSE shop_friends)
            /\ gold' = (IF a.species = "Pig" THEN gold + 2 * delta
                        ELSE gold + delta)]_vars

\* The last gold went into a third member, then a sale left two members,
\* each one health above its default and otherwise as bought.
C17_Witness ==
    /\ Stepped("SellFriend")
    /\ gold = 1
    /\ count(team) = 2
    /\ \A k \in Occupied(team) :
          LET f == unwrap(team[k])
          IN /\ f.health = DefaultHealth(f.species) + 1
             /\ f.attack = DefaultAttack(f.species)
             /\ f.exp = 0

\* C18: a successful BuyFood costs exactly 3 gold, empties exactly one food
\* offer and changes only the targeted Friend: an Apple adds 1 to its attack
\* and 1 to its health, Honey sets its modifier to Honey and leaves attack
\* and health alone.  The other team slots and the friend offers are
\* unchanged.
C18_BuyFoodEffect ==
    [][SteppedNext("BuyFood") =>
         LET i == sel_i'
             j == sel_j'
             food == unwrap(shop_foods[i])
             f == unwrap(team[j])
         IN /\ is_some(shop_foods[i])
            /\ is_some(team[j])
            /\ gold' = gold - 3
            /\ count(shop_foods') = count(shop_foods) - 1
            /\ \A k \in Occupied(shop_foods') :
                  \E m \in Occupied(shop_foods) \ {i} : shop_foods'[k] = shop_foods[m]
            /\ shop_friends' = shop_friends
            /\ \A k \in TeamIdx \ {j} : team'[k] = team[k]
            /\ team'[j] =
                  Some(IF food = "Apple"
                       THEN [f EXCEPT !.attack = f.attack + 1,
                                      !.health = f.health + 1]
                       ELSE [f EXCEPT !.modifier = Some("Honey")])]_vars

\* The last gold bought food for a lone member that carries Honey and still
\* has the stats it was bought with.
C18_Witness ==
    /\ Stepped("BuyFood")
    /\ gold = 0
    /\ count(team) = 1
    /\ LET f == unwrap(team[sel_j])
       IN /\ f.modifier = Some("Honey")
          /\ f.health = DefaultHealth(f.species)
          /\ f.attack = DefaultAttack(f.species)

\* The valid (source, partner) pairs of the two combine actions: two distinct
\* team slots holding the same species, or a friend offer and a team slot
\* holding the same species.
TeamPairs ==
    {p \in TeamIdx \X TeamIdx :
        p[1] # p[2] /\ same_species(team[p[1]], team[p[2]])}

OfferPairs ==
    {p \in ShopIdx \X TeamIdx : same_species(shop_friends[p[1]], team[p[2]])}

PairSources(pairs) == {p[1] : p \in pairs}
PairPartners(pairs, i) == {p[2] : p \in {q \in pairs : q[1] = i}}

\* The element of the set T of naturals with exactly v smaller elements.
Ascending(T, v, k) == k \in T /\ Cardinality({m \in T : m < k}) = v

\* The selection recorded by the step is the two-stage one over pairs.
TwoStage(pairs) ==
    /\ rolls' = << 6, Cardinality(PairSources(pairs)),
                   Cardinality(PairPartners(pairs, sel_i')) >>
    /\ Len(picked') = 2
    /\ Ascending(PairSources(pairs), picked'[1], sel_i')
    /\ Ascending(PairPartners(pairs, sel_i'), picked'[2], sel_j')
    /\ << sel_i', sel_j' >> \in pairs

\* The pairs the two rolls can select from a candidate table: roll values v
\* and w within the two ranges, taken through the table as the step does.
Selectable(targets) ==
    LET has_targets == has_targets_of(targets) IN
    {<< unwrap(nth_true(has_targets, v)),
        unwrap(nth_true(targets[unwrap(nth_true(has_targets, v))], w)) >> :
        <<v, w>> \in
           {x \in roll(count_true(has_targets)) \X roll(TEAM_SIZE) :
               x[2] \in roll(count_true(
                            targets[unwrap(nth_true(has_targets, x[1]))]))}}

\* C19: the combine selection is two-stage.  The first roll ranges over the
\* number of distinct sources that have a valid partner and its result v
\* selects the v-th such source in ascending order; the second roll ranges
\* over the number of valid partners of that source and selects among them
\* in ascending order.  The pairs that roll values can select are exactly
\* the valid (source, partner) pairs.
C19_TwoStageSelection ==
    /\ [](/\ Selectable(team_targets(Cur)) = TeamPairs
          /\ Selectable(shop_targets(Cur)) = OfferPairs)
    /\ [][/\ SteppedNext("CombineFriends") => TwoStage(TeamPairs)
          /\ SteppedNext("BuyCombineFriend") => TwoStage(OfferPairs)]_vars

\* Three members of one species: the last of three sources and the second
\* of its two partners were rolled.
C19_Witness ==
    /\ Stepped("CombineFriends")
    /\ rolls = << 6, 3, 2 >>
    /\ picked = << 2, 1 >>
    /\ sel_i = 2
    /\ sel_j = 1

\* What a Shop can still spend: two units for each gold, and for each team
\* member five units plus four for each merge it has absorbed.  A sale pays
\* at most 2 * level gold, which is less than half of a member's units.
RECURSIVE TeamUnits(_)
TeamUnits(k) ==
    IF k >= TEAM_SIZE THEN 0
    ELSE (IF is_some(team[k]) THEN 5 + 4 * unwrap(team[k]).exp ELSE 0)
         + TeamUnits(k + 1)

Potential == 2 * gold + TeamUnits(0)

\* A call that returns false strictly consumes the Shop's resources, so no
\* run of calls returns false forever.
FalseStepSpends ==
    [][ret' = "false" => (Potential' < Potential /\ Potential' >= 0)]_vars

\* C20: the round always ends with a true return: every call that returns
\* false strictly consumes resources (a sale never refunds what the Friend
\* cost), and the call after which the driver makes no further call has
\* returned true.
C20_RoundEndsWithTrue ==
    [][/\ ret' = "false" => (Potential' < Potential /\ Potential' >= 0)
       /\ ~Running' => ret' = "true"]_vars

====
